---- MODULE Spec2Model ----
(***************************************************************************)
(* PIE - Palette Indexed Encoding, version 2.0.0 (src/pie.h).              *)
(*                                                                         *)
(* The model follows pie_encode, pie_pixels_from_bytes and                 *)
(* pie_pixels_from_bytes_and_palette statement by statement.  Buffers are  *)
(* sequences of bytes; C index j is position j + 1 of the sequence.        *)
(* Integers keep their C width: pie_u8 values are reduced modulo 256 and   *)
(* a pie_u32 colour is held as the four bytes it occupies in memory, least *)
(* significant first: the target is little endian (pie.h:18), and two      *)
(* pie_u32 are equal exactly when their bytes are.                         *)
(***************************************************************************)
EXTENDS Integers, Sequences, FiniteSets, TLC

VARIABLES
    width, height, has_alpha, embed_palette, pixels,   \* arguments of pie_encode
    pc,                                                \* position in the program
    h,                                                 \* pie_header h of pie_encode
    colors, indices, color_count, pair_count, prev_color, i,  \* first pass
    alloc_kind, data_section, p, q,                    \* run-length pass
    final,                                             \* bytes returned by pie_encode
    b, ext_palette,                                    \* arguments of the decoders
    call, palette_bytes, di, pixel_index, dest, overwrites,   \* decoder locals
    px1, px2,                                          \* pie_pixels returned
    fault                                              \* undefined behaviour reached

inputs   == <<width, height, has_alpha, embed_palette, pixels>>
pass1    == <<colors, indices, color_count, pair_count, prev_color, i>>
pass2    == <<alloc_kind, data_section, p, q>>
decargs  == <<b, ext_palette>>
declocal == <<call, palette_bytes, di, pixel_index, dest, overwrites>>
results  == <<px1, px2>>
vars     == <<inputs, pc, h, pass1, pass2, final, decargs, declocal, results, fault>>

----------------------------------------------------------------------------
(* Bounds of the model.                                                    *)

\* Small images: every image of at most MaxPixels pixels over Palette3,
\* in every shape width x height, width or height zero included.
MaxPixels == 4
\* Decoder streams: at most MaxPairs pairs, run lengths 0..MaxRun, and
\* palettes of MaxEntries entries with indices 0..MaxEntries, the last of
\* which is past the end of the palette.
MaxPairs == 2
MaxRun == 2
MaxEntries == 2

----------------------------------------------------------------------------
(* Program constants.                                                      *)

PIE_IMAGE_HAS_ALPHA == 1
PIE_IMAGE_HAS_PALETTE == 2
\* sizeof(pie_header)
HeaderSize == 16
\* pie_size limit = 255;
limit_off_by_one == 255 + 1
limit == 255
\* Content of memory returned by a->alloc and not yet written.
Uninit == -1

\* (pie_u8)x
U8(x) == x % 256
\* q > (pie_u32)-1, and (pie_u32)q, for a non-negative pie_size q
ExceedsU32(x) == (x \div 65536) \div 65536 > 0
U32(x) == x - ((x \div 65536) \div 65536) * 65536 * 65536
\* pie_u32 zero, as stored
Zero32 == <<0, 0, 0, 0>>

\* x & m for a non-negative int x and a one-bit mask m
BitAnd(x, m) == ((x \div m) % 2) * m
\* x | y for x and y with no bit in common
BitOr(x, y) == x + y

\* The four bytes of a pie_u32 in memory, and the two of a pie_u16.
U32Bytes(x) == << x % 256, (x \div 256) % 256, (x \div 65536) % 256, (x \div 16777216) % 256 >>
U16Bytes(x) == << x % 256, (x \div 256) % 256 >>
ReadU32(s, off) == s[off + 1] + 256 * s[off + 2] + 65536 * s[off + 3] + 16777216 * s[off + 4]
ReadU16(s, off) == s[off + 1] + 256 * s[off + 2]

\* pie_size pie_stride(pie_header *h)
pie_stride(flags) == 3 + BitAnd(flags, PIE_IMAGE_HAS_ALPHA)

\* int pie_has_embedded_palette(pie_header *h)
pie_has_embedded_palette(flags) == BitAnd(flags, PIE_IMAGE_HAS_PALETTE)

\* *(pie_header *)final = h;
HeaderBytes(hd) ==
    << 80, 73, 69, hd.version >> \o U32Bytes(hd.flags) \o U16Bytes(hd.width)
        \o U16Bytes(hd.height) \o U32Bytes(hd.length)

----------------------------------------------------------------------------
(* Input images.                                                           *)

\* Three colours: black with alpha 0 (packs to 0), black with alpha 255
\* (the same colour as the first when the image is RGB), and another.
Palette3 == { <<0, 0, 0, 0>>, <<0, 0, 0, 255>>, <<7, 8, 9, 255>> }

SmallImages ==
    UNION { { [w |-> iw, h |-> ih, cols |-> s] : s \in [1..(iw * ih) -> Palette3] } :
            <<iw, ih>> \in { d \in (0..MaxPixels) \X (0..MaxPixels) : d[1] * d[2] <= MaxPixels } }

\* n pixels of pairwise different colours, none of them black.
RampColor(j) == << (j + 1) % 256, (j + 1) \div 256, 0, 255 >>
Ramp(n) == [k \in 1..n |-> RampColor(k - 1)]
Uniform(n, c) == [k \in 1..n |-> c]

\* Long images sit at the limits of the program: one and two full runs of
\* 255 pixels and one pixel more, and as many colours as a byte counts,
\* one fewer and one more.
LongLengths == { 255, 256, 510, 511 }
RampLengths == { 255, 256, 257 }
UniformColors == { <<0, 0, 0, 0>>, <<7, 8, 9, 255>> }

Shapes(n) == { <<n, 1>> } \cup (IF n % 2 = 0 THEN { <<n \div 2, 2>> } ELSE {})

LongImages ==
    UNION { { [w |-> d[1], h |-> d[2], cols |-> Uniform(n, c)] : d \in Shapes(n), c \in UniformColors } :
            n \in LongLengths }
    \cup { [w |-> n, h |-> 1, cols |-> Ramp(n)] : n \in RampLengths }

\* The pixel buffer: stride bytes per pixel, row-major, no padding.
PixelBytes(cols, stride) ==
    [k \in 1..(Len(cols) * stride) |-> cols[((k - 1) \div stride) + 1][((k - 1) % stride) + 1]]

----------------------------------------------------------------------------
(* pie_encode, lines 214-240.                                              *)

NoPixels == [count |-> 0, stride |-> 0, data |-> << >>]

DecoderIdle ==
    /\ b = << >> /\ ext_palette = << >>
    /\ call = 0 /\ palette_bytes = << >> /\ di = 0 /\ pixel_index = 0
    /\ dest = << >> /\ overwrites = 0
    /\ px1 = NoPixels /\ px2 = NoPixels
    /\ fault = "none"

\* pie_u32 flags = embed_palette ? PIE_IMAGE_HAS_PALETTE : 0;
\* flags |= has_alpha & PIE_IMAGE_HAS_ALPHA;
\* Callers pass 0 or 1 for has_alpha (n == 4, src/pie_cli/main.c:34).
EncodeFlags(alpha, embed) ==
    BitOr(IF embed # 0 THEN PIE_IMAGE_HAS_PALETTE ELSE 0, BitAnd(alpha, PIE_IMAGE_HAS_ALPHA))

Init ==
    /\ \E img \in SmallImages \cup LongImages, alpha \in {0, 1}, embed \in {0, 1} :
          /\ width = img.w /\ height = img.h
          /\ has_alpha = alpha /\ embed_palette = embed
          /\ h = [version |-> 2, flags |-> EncodeFlags(alpha, embed),
                  width |-> img.w, height |-> img.h, length |-> 0]
          /\ pixels = PixelBytes(img.cols, pie_stride(EncodeFlags(alpha, embed)))
          /\ colors = [k \in 1..(img.w * img.h * 2) |-> Zero32]
          /\ indices = [k \in 1..(img.w * img.h * 2) |-> 0]
    /\ color_count = 0 /\ pair_count = 0 /\ prev_color = Zero32 /\ i = 0
    /\ alloc_kind = "none" /\ data_section = << >> /\ p = 0 /\ q = 0
    /\ final = << >>
    /\ pc = "scan"
    /\ DecoderIdle

stride == pie_stride(h.flags)
pixel_count == h.width * h.height

----------------------------------------------------------------------------
(* pie_encode, first pass (lines 242-272): palette discovery, indices,     *)
(* and the count of pairs to allocate.                                     *)

\* pie_u32 color = r | (g << 8) | (b << 16), and the alpha byte << 24 when
\* stride == 4, as the four bytes of the pie_u32.  (For an alpha byte of
\* 128 or more the shift is done in int and leaves its range; every
\* two's-complement build stores the byte in bits 24..31, as here.)
PackColor(px, k, st) ==
    << px[k * st + 1], px[k * st + 2], px[k * st + 3], IF st = 4 THEN px[k * st + 4] ELSE 0 >>

\* for (j = 0; j < color_count; j += 1) if (colors[j] == color) { color_index = j; break; }
FindColor(cs, n, color) ==
    IF \E j \in 0..(n - 1) : cs[j + 1] = color
    THEN CHOOSE j \in 0..(n - 1) : cs[j + 1] = color /\ \A k \in 0..(j - 1) : cs[k + 1] # color
    ELSE n

ScanPixel ==
    /\ pc = "scan"
    /\ i < pixel_count
    /\ LET color == PackColor(pixels, i, stride)
           color_index == FindColor(colors, color_count, color)
       IN  /\ IF color_index = color_count
              THEN /\ colors' = [colors EXCEPT ![color_count + 1] = color]
                   /\ color_count' = U8(color_count + 1)
              ELSE UNCHANGED <<colors, color_count>>
           /\ indices' = [indices EXCEPT ![i + 1] = color_index]
           /\ pair_count' = IF color # prev_color THEN pair_count + 1 ELSE pair_count
           /\ prev_color' = color
    /\ i' = i + 1
    /\ UNCHANGED <<inputs, pc, h, pass2, final, decargs, declocal, results, fault>>

\* pie_u8 *data_section = a->alloc(pair_count * 2, a->context);  (line 274)
\* The allocator is the caller's.  "slack" is an allocator whose blocks are
\* followed by unused room (malloc, src/pie_cli/main.c:7); "bump" is one that
\* hands out consecutive addresses (src/pie_cli/pie.c:16), so that the block
\* allocated next, final, starts at data_section + pair_count * 2.
AllocDataSection ==
    /\ pc = "scan"
    /\ i >= pixel_count
    /\ \E kind \in {"slack", "bump"} : alloc_kind' = kind
    /\ data_section' = << >>
    /\ p' = 0 /\ q' = 0
    /\ pc' = "rle"
    /\ UNCHANGED <<inputs, h, pass1, final, decargs, declocal, results, fault>>

----------------------------------------------------------------------------
(* pie_encode, run-length pass (lines 276-289).                            *)

\* while (p + count < pixel_count && indices[p] == indices[p + count]
\*        && count < limit) count += 1;
RECURSIVE RunLength_stops_at_row_end(_, _, _, _)
RunLength_stops_at_row_end(ix, start, count, n) ==
    IF start + count < n /\ ix[start + 1] = ix[start + count + 1] /\ count < limit
          /\ (start + count) % h.width # 0
    THEN RunLength_stops_at_row_end(ix, start, count + 1, n)
    ELSE count

RECURSIVE RunLength(_, _, _, _)
RunLength(ix, start, count, n) ==
    IF start + count < n /\ ix[start + 1] = ix[start + count + 1] /\ count < limit
    THEN RunLength(ix, start, count + 1, n)
    ELSE count

\* An encoder that stores the run length first and the index second.
EmitPair_run_length_first ==
    /\ pc = "rle"
    /\ p < pixel_count
    /\ LET count == RunLength(indices, p, 1, pixel_count)
       IN  /\ data_section' = data_section \o << U8(count), indices[p + 1] >>
           /\ p' = p + count
    /\ q' = q + 1
    /\ UNCHANGED <<inputs, pc, h, pass1, alloc_kind, final, decargs, declocal, results, fault>>

\* data_section holds the bytes the loop has stored at data_section[0..2q-1];
\* those at pair_count * 2 and beyond lie outside the allocated block.
EmitPair ==
    /\ pc = "rle"
    /\ p < pixel_count
    /\ LET count == RunLength(indices, p, 1, pixel_count)
       IN  /\ data_section' = data_section \o << indices[p + 1], U8(count) >>
           /\ p' = p + count
    /\ q' = q + 1
    /\ UNCHANGED <<inputs, pc, h, pass1, alloc_kind, final, decargs, declocal, results, fault>>

----------------------------------------------------------------------------
(* pie_encode, output (lines 291-315).                                     *)

\* data_section[k] as the copy loop of line 305 reads it, for k in 0..2q-1.
\* Inside the block it is the byte stored.  Outside it, a "slack" allocator
\* leaves the byte stored in place; under a "bump" allocator the address is
\* final[k - cap], which by then holds the header (written at line 302) or
\* the data byte the copy loop has already stored there.
CopiedData(ds, cap, kind, hdr) ==
    LET src[k \in 0..(Len(ds) - 1)] ==
            IF kind = "slack" \/ k < cap THEN ds[k + 1]
            ELSE IF k - cap < HeaderSize THEN hdr[k - cap + 1]
            ELSE src[k - cap - HeaderSize]
    IN  [k \in 1..Len(ds) |-> src[k - 1]]

\* pie_u8 *palette_section = (pie_u8 *)colors; its first n bytes.
PaletteSection(cs, n) ==
    [k \in 1..n |-> cs[((k - 1) \div 4) + 1][((k - 1) % 4) + 1]]

\* The palette the encoder has discovered, as a decoder takes one: entry j
\* is the stride bytes of colors[j], for j < color_count.
EncoderPalette(cs, n, st) ==
    [k \in 1..(n * st) |-> cs[((k - 1) \div st) + 1][((k - 1) % st) + 1]]

\* Lines 291-315, and the caller handing the result to the decoders.
Finish ==
    /\ pc = "rle"
    /\ p >= pixel_count
    /\ LET palette_size == IF embed_palette # 0 THEN color_count * stride ELSE 0
           hd == [h EXCEPT !.length = U32(q)]
       IN  IF ExceedsU32(q)
           THEN /\ final' = << >>
                /\ pc' = "done"
                /\ UNCHANGED <<h, decargs>>
           ELSE /\ h' = hd
                /\ final' = HeaderBytes(hd)
                              \o CopiedData(data_section, pair_count * 2, alloc_kind, HeaderBytes(hd))
                              \o PaletteSection(colors, palette_size)
                /\ b' = final'
                /\ ext_palette' = EncoderPalette(colors, color_count, stride)
                /\ pc' = "call1"
    /\ UNCHANGED <<inputs, pass1, pass2, declocal, results, fault>>

----------------------------------------------------------------------------
(* The decoders (lines 167-207).                                           *)

\* pie_header *h = (pie_header *)b;
HeaderOf(bs) ==
    [version |-> bs[4], flags |-> ReadU32(bs, 4), width |-> ReadU16(bs, 8),
     height |-> ReadU16(bs, 10), length |-> ReadU32(bs, 12)]

dec_stride == pie_stride(HeaderOf(b).flags)
dec_pixel_count == HeaderOf(b).width * HeaderOf(b).height
data_pairs == HeaderOf(b).length

\* A decoder that takes header.length for the length of the data in bytes.
EmbeddedPalette_length_in_bytes(bs) ==
    SubSeq(bs, HeaderSize + HeaderOf(bs).length + 1, Len(bs))

\* pie_u8 *palette_bytes = data + data_length;  (lines 202-204)
EmbeddedPalette(bs) ==
    LET data_length == HeaderOf(bs).length * 2
    IN  SubSeq(bs, HeaderSize + data_length + 1, Len(bs))

\* pie_u8 *dest = a->alloc(pixel_count * stride, a->context);
StartLoop(pal) ==
    /\ palette_bytes' = pal
    /\ dest' = [k \in 1..(dec_pixel_count * dec_stride) |-> Uninit]
    /\ pixel_index' = 0
    /\ di' = 0
    /\ overwrites' = 0
    /\ pc' = "loop"

\* pie_pixels_from_bytes(b, flip, a), up to the call at line 206.
FromBytes ==
    /\ pc = "call1"
    /\ IF pie_has_embedded_palette(HeaderOf(b).flags) = 0
       THEN /\ px1' = NoPixels
            /\ pc' = "call2"
            /\ UNCHANGED declocal
       ELSE /\ call' = 1
            /\ StartLoop(EmbeddedPalette(b))
            /\ UNCHANGED px1
    /\ UNCHANGED <<inputs, h, pass1, pass2, final, decargs, px2, fault>>

\* pie_pixels_from_bytes_and_palette(b, p, flip, a), lines 169-179.
FromBytesAndPalette ==
    /\ pc = "call2"
    /\ call' = 2
    /\ StartLoop(ext_palette)
    /\ UNCHANGED <<inputs, h, pass1, pass2, final, decargs, results, fault>>

\* dest after one pass of the loop of line 184: run pixels written from
\* pixel at, each the st bytes of pal at index * st.
WriteRun(d, pal, at, run, index, st) ==
    [k \in 1..Len(d) |->
        IF at * st < k /\ k <= (at + run) * st
        THEN pal[index * st + ((k - 1) % st) + 1]
        ELSE d[k]]

\* A decoder that starts every row at a cursor of 0.
AdvanceCursor_reset_per_row(at, run) == (at + run) % HeaderOf(b).width

\* pixel_index += 1, run times
AdvanceCursor(at, run) == at + run

\* One pass of the loop of line 180.  A read past the end of the palette
\* and a write past the end of dest are undefined: the model stops there.
DecodePair ==
    /\ pc = "loop"
    /\ di < data_pairs
    /\ LET palette_index == b[HeaderSize + di * 2 + 1]
           run_length == b[HeaderSize + di * 2 + 2]
       IN  IF run_length > 0 /\ (palette_index + 1) * dec_stride > Len(palette_bytes)
           THEN /\ fault' = "palette_read"
                /\ pc' = "fault"
                /\ UNCHANGED declocal
           ELSE IF pixel_index + run_length > dec_pixel_count
           THEN /\ fault' = "dest_write"
                /\ pc' = "fault"
                /\ UNCHANGED declocal
           ELSE /\ dest' = WriteRun(dest, palette_bytes, pixel_index, run_length,
                                    palette_index, dec_stride)
                /\ overwrites' = overwrites +
                       Cardinality({ k \in 1..Len(dest) :
                                       /\ pixel_index * dec_stride < k
                                       /\ k <= (pixel_index + run_length) * dec_stride
                                       /\ dest[k] # Uninit })
                /\ pixel_index' = AdvanceCursor(pixel_index, run_length)
                /\ di' = di + 1
                /\ UNCHANGED <<pc, call, palette_bytes, fault>>
    /\ UNCHANGED <<inputs, h, pass1, pass2, final, decargs, results>>

\* return (pie_pixels){pixel_count, stride, dest, a};
DecodeReturn ==
    /\ pc = "loop"
    /\ di >= data_pairs
    /\ LET r == [count |-> dec_pixel_count, stride |-> dec_stride, data |-> dest]
       IN  IF call = 1
           THEN /\ px1' = r /\ pc' = "call2" /\ UNCHANGED px2
           ELSE /\ px2' = r /\ pc' = "done" /\ UNCHANGED px1
    /\ UNCHANGED <<inputs, h, pass1, pass2, final, decargs, declocal, fault>>

----------------------------------------------------------------------------
(* Specification of the encoder followed by both decoders.                 *)

Next ==
    \/ ScanPixel
    \/ AllocDataSection
    \/ EmitPair
    \/ Finish
    \/ FromBytes
    \/ FromBytesAndPalette
    \/ DecodePair
    \/ DecodeReturn

Spec == Init /\ [][Next]_vars

----------------------------------------------------------------------------
(* Specification of the decoders alone, on streams that need not come from *)
(* pie_encode: a header, header.length pairs and, when the palette flag is *)
(* set, a palette; together with a palette supplied by the caller.         *)

DecEntry(j) == << 10 * j + 1, 10 * j + 2, 10 * j + 3, 10 * j + 4 >>

\* ne entries of st bytes each, entry j being DecEntry(j + shift)
DecPalette(ne, st, shift) ==
    [k \in 1..(ne * st) |-> DecEntry(((k - 1) \div st) + shift)[((k - 1) % st) + 1]]

\* u8 data[][2]: [Color Index, Count]
PairBytes(prs) ==
    [k \in 1..(2 * Len(prs)) |-> prs[((k - 1) \div 2) + 1][((k - 1) % 2) + 1]]

DecShapes == { <<2, 1>>, <<1, 2>>, <<2, 2>> }

EncoderIdle ==
    /\ width = 0 /\ height = 0 /\ has_alpha = 0 /\ embed_palette = 0 /\ pixels = << >>
    /\ h = [version |-> 2, flags |-> 0, width |-> 0, height |-> 0, length |-> 0]
    /\ colors = << >> /\ indices = << >>
    /\ color_count = 0 /\ pair_count = 0 /\ prev_color = Zero32 /\ i = 0
    /\ alloc_kind = "none" /\ data_section = << >> /\ p = 0 /\ q = 0
    /\ final = << >>

InitDec ==
    /\ EncoderIdle
    /\ \E f \in 0..3, d \in DecShapes, n \in 0..MaxPairs, same \in BOOLEAN :
         \E prs \in [1..n -> (0..MaxEntries) \X (0..MaxRun)] :
            /\ b = HeaderBytes([version |-> 2, flags |-> f, width |-> d[1],
                                height |-> d[2], length |-> n])
                     \o PairBytes(prs)
                     \o (IF pie_has_embedded_palette(f) # 0
                         THEN DecPalette(MaxEntries, pie_stride(f), 0) ELSE << >>)
            /\ ext_palette = DecPalette(MaxEntries, pie_stride(f), IF same THEN 0 ELSE 1)
    /\ call = 0 /\ palette_bytes = << >> /\ di = 0 /\ pixel_index = 0
    /\ dest = << >> /\ overwrites = 0
    /\ px1 = NoPixels /\ px2 = NoPixels
    /\ fault = "none"
    /\ pc = "call1"

NextDec ==
    \/ FromBytes
    \/ FromBytesAndPalette
    \/ DecodePair
    \/ DecodeReturn

SpecDec == InitDec /\ [][NextDec]_vars

----------------------------------------------------------------------------
(* Properties.                                                             *)

\* pie_encode has returned.
EncoderReturned == pc \in {"call1", "call2", "loop", "done", "fault"}

\* The colour of pixel k (from 0) of the input, as its stride bytes.
PixelAt(k) == SubSeq(pixels, k * stride + 1, (k + 1) * stride)
DistinctColours == Cardinality({ PixelAt(k) : k \in 0..(pixel_count - 1) })

\* The first call, pie_pixels_from_bytes, has returned.
FirstCallOver == pc = "call2" \/ (pc \in {"loop", "done", "fault"} /\ call = 2)

\* The sum of f[lo..hi], by halves.
RECURSIVE SumRange(_, _, _)
SumRange(f, lo, hi) ==
    IF lo > hi THEN 0
    ELSE IF lo = hi THEN f[lo]
    ELSE SumRange(f, lo, (lo + hi) \div 2) + SumRange(f, ((lo + hi) \div 2) + 1, hi)

\* The run-length bytes of the first n pairs of a stream, and of the pairs
\* stored by the run-length loop.
StreamRuns(bs, n) == [k \in 1..n |-> bs[HeaderSize + 2 * k]]
StoredRuns(ds, n) == [k \in 1..n |-> ds[2 * k]]

\* C1. Round trip: for an image of at most 256 distinct colours, RGB or
\* RGBA, decoding the bytes pie_encode returns gives back the input buffer
\* byte for byte: with pie_pixels_from_bytes when the palette is embedded,
\* with pie_pixels_from_bytes_and_palette and the encoder's palette
\* otherwise.
C1_RoundTrip ==
    DistinctColours <= 256 =>
        IF embed_palette # 0
        THEN /\ ~(pc = "fault" /\ call = 1)
             /\ FirstCallOver =>
                    px1 = [count |-> width * height, stride |-> stride, data |-> pixels]
        ELSE /\ pc # "fault"
             /\ pc = "done" =>
                    px2 = [count |-> width * height, stride |-> stride, data |-> pixels]

\* C2. Sum invariant: in every stream pie_encode returns, the run-length
\* bytes of the first header.length pairs sum to header.width *
\* header.height, and header.length is the number of pairs emitted.
C2_SumInvariant ==
    (EncoderReturned /\ final # << >>) =>
        /\ HeaderOf(final).length = q
        /\ SumRange(StreamRuns(final, HeaderOf(final).length), 1, HeaderOf(final).length)
              = HeaderOf(final).width * HeaderOf(final).height

\* C3. Run-length bound: every pair the run-length loop of pie_encode emits
\* has a run length in 1..255, and the byte stored is the length of the
\* run, not a truncation of it: the lengths stored add up to the number of
\* pixels consumed.
C3_RunLengthBound ==
    /\ \A k \in 1..q : data_section[2 * k] >= 1 /\ data_section[2 * k] <= 255
    /\ Len(data_section) = 2 * q
    /\ SumRange(StoredRuns(data_section, q), 1, q) = p

\* C3 witness: an image of more than 255 pixels has been encoded and a run
\* of 255 was emitted before the end of the image.
C3_Witness ==
    /\ EncoderReturned
    /\ pixel_count > 255
    /\ \E k \in 1..(q - 1) : data_section[2 * k] = 255

\* StartsOf(ds, n)[k] is the pixel at which pair k of ds starts, the sum
\* of the run lengths of the pairs before it; entry n + 1 is their total.
StartsOf(ds, n) == [k \in 1..(n + 1) |-> SumRange(StoredRuns(ds, n), 1, k - 1)]

FirstOccurrences == { k \in 0..(pixel_count - 1) : \A j \in 0..(k - 1) : PixelAt(j) # PixelAt(k) }
ColourNumber(k) ==
    LET first == CHOOSE j \in FirstOccurrences : PixelAt(j) = PixelAt(k)
    IN  Cardinality({ j \in FirstOccurrences : j < first })

\* C5. Palette determinism and layout: with the palette embedded, the
\* bytes after the pair stream are the distinct colours of the image in
\* first-occurrence order, stride bytes each and no padding: colour number
\* n is at byte offset 16 + 2 * pairCount + n * stride, and the index of a
\* pixel is the number of its colour.
C5_PaletteLayout ==
    (pc = "call1" /\ embed_palette # 0) =>
        LET off == 16 + 2 * HeaderOf(final).length
        IN  /\ Len(final) = off + Cardinality(FirstOccurrences) * stride
            /\ \A k \in FirstOccurrences :
                  SubSeq(final, off + ColourNumber(k) * stride + 1,
                         off + (ColourNumber(k) + 1) * stride) = PixelAt(k)
            /\ \A k \in 0..(pixel_count - 1) : indices[k + 1] = ColourNumber(k)

\* C6. Colour ceiling: encoding an image of 257 or more distinct colours
\* fails and returns no stream.
C6_ColourCeiling ==
    (EncoderReturned /\ DistinctColours >= 257) => final = << >>

\* C7. Palette index invariant: after every pixel processed, every index
\* assigned to a pixel and every index stored in a pair is below the
\* number of palette entries, which is at most 256.
C7_PaletteIndexInvariant ==
    /\ color_count <= 256
    /\ \A k \in 1..i : indices[k] < color_count
    /\ \A k \in 1..q : data_section[2 * k - 1] < color_count

\* C10. Header flags and stride: in the header pie_encode writes, bit 0
\* (0x1) of flags is set exactly when the palette is embedded, bit 1 (0x2)
\* exactly when the image has an alpha channel, and no other bit; the
\* decoder's stride is 3 for RGB and 4 for RGBA.
C10_HeaderFlags ==
    (EncoderReturned /\ final # << >>) =>
        LET flags == HeaderOf(final).flags
        IN  /\ (BitAnd(flags, 1) # 0) <=> (embed_palette # 0)
            /\ (BitAnd(flags, 2) # 0) <=> (has_alpha # 0)
            /\ flags < 4
            /\ pie_stride(flags) = IF has_alpha # 0 THEN 4 ELSE 3

\* The run-length and palette-index bytes of pair k (from 1) of the stream
\* handed to the decoders, and the pixel at which it starts.
RunOf(k) == b[HeaderSize + 2 * k]
IndexOf(k) == b[HeaderSize + 2 * k - 1]
StartOf(k) == SumRange(StreamRuns(b, k - 1), 1, k - 1)

\* C8. Embedded versus external palette: for a stream with the embedded-
\* palette flag set, pie_pixels_from_bytes and
\* pie_pixels_from_bytes_and_palette called with an external palette equal
\* to the bytes that follow the header.length pairs return the same count,
\* the same stride and byte-identical pixels.
C8_EmbeddedVsExternal ==
    ( /\ pc = "done"
      /\ BitAnd(ReadU32(b, 4), PIE_IMAGE_HAS_PALETTE) # 0
      /\ ext_palette = SubSeq(b, 16 + 2 * ReadU32(b, 12) + 1, Len(b)) )
    => px1 = px2

\* C8 witness: both decoders have returned for such a stream, and the
\* pixels decoded use two different palette entries.
C8_Witness ==
    /\ pc = "done"
    /\ BitAnd(ReadU32(b, 4), PIE_IMAGE_HAS_PALETTE) # 0
    /\ ext_palette = SubSeq(b, 16 + 2 * ReadU32(b, 12) + 1, Len(b))
    /\ px1.count > 0
    /\ \A k \in 1..Len(px1.data) : px1.data[k] # Uninit
    /\ \E k \in 1..Len(px1.data) : px1.data[k] # px1.data[((k - 1) % px1.stride) + 1]

\* C9. Decoder replay: pie_pixels_from_bytes_and_palette takes the pairs in
\* stream order with one linear cursor that starts at 0 and is never reset:
\* after di pairs the cursor is the sum of their run lengths, the pixels
\* before it are the expanded runs, each the stride bytes of the palette
\* entry at its pair's index, no byte was written twice and none at or
\* past the cursor; a write past the end of dest needs run lengths summing
\* to more than width * height, and when they sum to width * height every
\* byte of dest has been written.
C9_DecoderReplay ==
    call = 2 =>
        /\ pc \in {"loop", "done"} =>
              /\ pixel_index = StartOf(di + 1)
              /\ Len(dest) = ReadU16(b, 8) * ReadU16(b, 10) * dec_stride
              /\ \A j \in 1..di : \A x \in StartOf(j)..(StartOf(j + 1) - 1) :
                    SubSeq(dest, x * dec_stride + 1, (x + 1) * dec_stride)
                        = SubSeq(ext_palette, IndexOf(j) * dec_stride + 1,
                                 (IndexOf(j) + 1) * dec_stride)
              /\ \A k \in (pixel_index * dec_stride + 1)..Len(dest) : dest[k] = Uninit
              /\ overwrites = 0
        /\ fault = "dest_write" => StartOf(di + 2) > ReadU16(b, 8) * ReadU16(b, 10)
        /\ (pc = "done" /\ StartOf(ReadU32(b, 12) + 1) = ReadU16(b, 8) * ReadU16(b, 10)) =>
              /\ px2.data = dest
              /\ \A k \in 1..Len(dest) : dest[k] # Uninit

\* C9 witness: pie_pixels_from_bytes_and_palette has returned after two
\* pairs of different palette indices whose run lengths sum to width *
\* height, the second of them written in the second row.
C9_Witness ==
    /\ pc = "done" /\ call = 2
    /\ ReadU32(b, 12) = 2
    /\ IndexOf(1) # IndexOf(2)
    /\ RunOf(1) > 0 /\ RunOf(2) > 0
    /\ ReadU16(b, 10) = 2
    /\ StartOf(2) >= ReadU16(b, 8)
    /\ StartOf(3) = ReadU16(b, 8) * ReadU16(b, 10)

\* The pairs stored by the run-length loop, read with the run length at
\* byte runPos and the palette index at byte idxPos of each pair (1 or 2),
\* describe the image: the run lengths are positive and sum to
\* width * height, and every pixel of a run has the pair's index.
StoredPairsDescribeImage(runPos, idxPos) ==
    LET runs == [k \in 1..q |-> data_section[2 * (k - 1) + runPos]]
        st == [k \in 1..(q + 1) |-> SumRange(runs, 1, k - 1)]
    IN  /\ Len(data_section) = 2 * q
        /\ \A k \in 1..q : runs[k] >= 1
        /\ st[q + 1] = width * height
        /\ \A k \in 1..q : \A x \in st[k]..(st[k + 1] - 1) :
              indices[x + 1] = data_section[2 * (k - 1) + idxPos]

\* The decoder has taken, for each of the di pairs replayed, the run length
\* from byte runPos and the palette index from byte idxPos of the pair: the
\* cursor is the sum of the run lengths, and the pixels of the last pair
\* replayed are the palette entry at its index.
DecoderReadsPairs(runPos, idxPos) ==
    LET runs == [k \in 1..di |-> b[HeaderSize + 2 * (k - 1) + runPos]]
        index == b[HeaderSize + 2 * (di - 1) + idxPos]
        start == SumRange(runs, 1, di - 1)
    IN  /\ pixel_index = SumRange(runs, 1, di)
        /\ di >= 1 =>
              \A x \in start..(pixel_index - 1) :
                 /\ (index + 1) * dec_stride <= Len(palette_bytes)
                 /\ SubSeq(dest, x * dec_stride + 1, (x + 1) * dec_stride)
                       = SubSeq(palette_bytes, index * dec_stride + 1, (index + 1) * dec_stride)

\* C11 (as claimed). Pair field order: each pair stores the run length in
\* its first byte and the palette index in its second byte, and pie_encode
\* and the decoder both use this order.
C11_PairOrder_RunFirst ==
    /\ pc = "call1" => StoredPairsDescribeImage(1, 2)
    /\ pc \in {"loop", "done"} => DecoderReadsPairs(1, 2)

\* C11 (amended). Pair field order: each pair stores the palette index in
\* its first byte and the run length in its second byte; pie_encode stores
\* them so, the pairs inside the allocated block reach the stream as
\* stored, and the decoder reads them in this same order.
C11_PairOrder_IndexFirst ==
    /\ pc = "call1" =>
          /\ StoredPairsDescribeImage(2, 1)
          /\ \A k \in 1..(2 * q) :
                k <= 2 * pair_count => final[HeaderSize + k] = data_section[k]
    /\ pc \in {"loop", "done"} => DecoderReadsPairs(2, 1)

\* C11 witness: an image has been encoded into two or more pairs, one of
\* them with a palette index different from its run length, and decoded
\* back to the input.
C11_Witness ==
    /\ pc = "done"
    /\ q >= 2
    /\ \E k \in 1..q : data_section[2 * k - 1] # data_section[2 * k]
    /\ \A k \in 1..(2 * q) : b[HeaderSize + k] = data_section[k]
    /\ px2.data = pixels

\* C12. Pair buffer capacity: the number of pairs q the run-length loop
\* has written into data_section never exceeds pair_count, the number of
\* pairs the block was allocated for: no byte is stored at or beyond
\* pair_count * 2.
C12_PairBufferCapacity ==
    pc # "scan" =>
        /\ q <= pair_count
        /\ Len(data_section) <= pair_count * 2

====
